---------------------------- MODULE Spec2Model ----------------------------
(***************************************************************************)
(* Model of the Streamlit math solver of src/mathcorrectionapp.py: the     *)
(* text normalizer preprocess_input, the router parse_input and the Run    *)
(* handler that dispatches the selected or auto-detected operation.        *)
(*                                                                         *)
(* Text is a sequence of one-character strings.  Regular expressions are   *)
(* modelled by scanning operators that follow Python's re semantics:       *)
(* leftmost match, alternatives tried in order, greedy repetition, and     *)
(* re.sub resuming the scan after each match without rescanning what it    *)
(* inserted.                                                               *)
(***************************************************************************)
EXTENDS Integers, Sequences, FiniteSets, TLC

VARIABLES
    expr_input,   \* st.text_area "Enter expression or equation"
    var_input,    \* st.sidebar.text_input "Variable(s) (comma-separated)"
    operation,    \* st.sidebar.selectbox "Choose operation"
    ran,          \* TRUE while the output of a pressed Run button is shown
    s_norm,       \* value of s in parse_input after preprocess_input
    out,          \* what the Run handler did and displayed
    edits,        \* number of widget edits made in the session so far
    nfuncs,       \* number of function names entered with the function keys
    history,      \* st.session_state.history of streamlit_app.py
    game          \* st.session_state of shitmario.py

vars == <<expr_input, var_input, operation, ran, s_norm, out, edits, nfuncs,
          history, game>>

-----------------------------------------------------------------------------
(* Characters and character classes (Python re, str)                       *)

Lower == {"a","b","c","d","e","f","g","h","i","j","k","l","m",
          "n","o","p","q","r","s","t","u","v","w","x","y","z"}
Upper == {"A","B","C","D","E","F","G","H","I","J","K","L","M",
          "N","O","P","Q","R","S","T","U","V","W","X","Y","Z"}
Digit == {"0","1","2","3","4","5","6","7","8","9"}
Letter == Lower \cup Upper

\* [A-Za-z]
IsLetter(c) == c \in Letter
\* \d
IsDigit(c) == c \in Digit
\* \w, also [A-Za-z0-9_]
IsWord(c) == c \in Letter \cup Digit \cup {"_"}
\* \s
IsSpace(c) == c \in {" ", "\t", "\n"}
\* [A-Za-z0-9\.\*\+\-/\^\_\(\)]  (token class of rewrite 2)
IsTokenChar(c) == IsWord(c) \/ c \in {".", "*", "+", "-", "/", "^", "(", ")"}
\* [A-Za-z0-9\.\_\^]  (token class of rewrite 3)
IsGluedChar(c) == IsWord(c) \/ c \in {".", "^"}

\* s[i..j], empty when j < i
Slice(s, i, j) == IF j < i THEN <<>> ELSE SubSeq(s, i, j)

\* t occurs in s starting at index i
StartsAt(s, i, t) ==
    /\ i >= 1
    /\ i + Len(t) - 1 <= Len(s)
    /\ \A k \in 1..Len(t) : s[i + k - 1] = t[k]

\* some occurrence of t in s
Contains(s, t) == \E i \in 1..Len(s) : StartsAt(s, i, t)

\* first index >= i whose character is not whitespace (Len(s)+1 if none)
RECURSIVE SkipSpace(_, _)
SkipSpace(s, i) ==
    IF i <= Len(s) /\ IsSpace(s[i]) THEN SkipSpace(s, i + 1) ELSE i

\* first index >= i whose character is not in the token class of rewrite 2
RECURSIVE SkipToken(_, _)
SkipToken(s, i) ==
    IF i <= Len(s) /\ IsTokenChar(s[i]) THEN SkipToken(s, i + 1) ELSE i

\* first index >= i whose character is not in the class of rewrite 3
RECURSIVE SkipGlued(_, _)
SkipGlued(s, i) ==
    IF i <= Len(s) /\ IsGluedChar(s[i]) THEN SkipGlued(s, i + 1) ELSE i

\* first index >= i whose character is not a word character
RECURSIVE SkipWord(_, _)
SkipWord(s, i) ==
    IF i <= Len(s) /\ IsWord(s[i]) THEN SkipWord(s, i + 1) ELSE i

\* \b before s[i]
WordBoundary(s, i) ==
    LET before == i > 1 /\ i - 1 <= Len(s) /\ IsWord(s[i - 1])
        after  == i >= 1 /\ i <= Len(s) /\ IsWord(s[i])
    IN  before # after

\* str.strip()
RECURSIVE StripLeft(_)
StripLeft(s) ==
    IF s # <<>> /\ IsSpace(Head(s)) THEN StripLeft(Tail(s)) ELSE s

RECURSIVE StripRight(_)
StripRight(s) ==
    IF s # <<>> /\ IsSpace(s[Len(s)])
    THEN StripRight(SubSeq(s, 1, Len(s) - 1)) ELSE s

Strip(s) == StripRight(StripLeft(s))

\* str.replace(old, new) from index i on, old non-empty
RECURSIVE ReplaceFrom(_, _, _, _)
ReplaceFrom(s, i, old, new) ==
    IF i > Len(s) THEN <<>>
    ELSE IF StartsAt(s, i, old)
         THEN new \o ReplaceFrom(s, i + Len(old), old, new)
         ELSE <<s[i]>> \o ReplaceFrom(s, i + 1, old, new)

Replace(s, old, new) == ReplaceFrom(s, 1, old, new)

\* re.sub(r'\s+', ' ', s) from index i on
RECURSIVE CollapseSpaceFrom(_, _)
CollapseSpaceFrom(s, i) ==
    IF i > Len(s) THEN <<>>
    ELSE IF IsSpace(s[i])
         THEN <<" ">> \o CollapseSpaceFrom(s, SkipSpace(s, i))
         ELSE <<s[i]>> \o CollapseSpaceFrom(s, i + 1)

CollapseSpace(s) == CollapseSpaceFrom(s, 1)

-----------------------------------------------------------------------------
(* preprocess_input                                                        *)

\* the list without the inverse functions, as LOCAL_DICT has it
MATH_FUNCS_NoInverse ==
    << <<"s","i","n">>, <<"c","o","s">>, <<"t","a","n">>, <<"s","e","c">>,
       <<"c","s","c">>, <<"c","o","t">>, <<"e","x","p">>, <<"l","o","g">>,
       <<"s","q","r","t">> >>

MATH_FUNCS ==
    << <<"s","i","n">>, <<"c","o","s">>, <<"t","a","n">>, <<"s","e","c">>,
       <<"c","s","c">>, <<"c","o","t">>, <<"e","x","p">>, <<"l","o","g">>,
       <<"s","q","r","t">>, <<"a","s","i","n">>, <<"a","c","o","s">>,
       <<"a","t","a","n">> >>

IsMathFunc(name) == \E k \in 1..Len(MATH_FUNCS) : MATH_FUNCS[k] = name

\* \s*\(\s*  from j
CallRestEnd(s, j) ==
    LET p == SkipSpace(s, j)
    IN  IF p <= Len(s) /\ s[p] = "(" THEN SkipSpace(s, p + 1) ELSE 0

\* \s+([A-Za-z0-9\.\*\+\-/\^\_\(\)]+)  from j
SpacedRestEnd(s, j) ==
    LET p == SkipSpace(s, j)
        e == SkipToken(s, p)
    IN  IF p > j /\ e > p THEN e ELSE 0

\* the glued argument restricted to digits, ([0-9]+)
GluedRestEnd_DigitsOnly(s, j) ==
    LET e == SkipGlued(s, j)
    IN  IF e > j /\ \A i \in j..(e - 1) : IsDigit(s[i]) THEN e ELSE 0

\* ([A-Za-z0-9\.\_\^]+)  from j
GluedRestEnd(s, j) ==
    LET e == SkipGlued(s, j)
    IN  IF e > j THEN e ELSE 0

\* the rest of the pattern of rewrite 1, 2 or 3 from j: the index after it,
\* or 0 when it does not match
RestEnd(s, j, rewrite) ==
    IF rewrite = 1 THEN CallRestEnd(s, j)
    ELSE IF rewrite = 2 THEN SpacedRestEnd(s, j)
    ELSE GluedRestEnd(s, j)

\* The alternation (sin|cos|...) after \b at index i, followed by the rest of
\* the pattern of one rewrite.  The result is <<k, e>>: the first alternative
\* k, in list order, with which the whole pattern matches, and the index e
\* after the match; <<0, 0>> if none.
FuncAlt(s, i, rewrite) ==
    LET ok == {k \in 1..Len(MATH_FUNCS) :
                  /\ StartsAt(s, i, MATH_FUNCS[k])
                  /\ RestEnd(s, i + Len(MATH_FUNCS[k]), rewrite) # 0}
    IN  IF ~WordBoundary(s, i) \/ ok = {} THEN <<0, 0>>
        ELSE LET k == CHOOSE k \in ok : \A m \in ok : k <= m
             IN  <<k, RestEnd(s, i + Len(MATH_FUNCS[k]), rewrite)>>

\* 1) re.sub(rf'\b({funcs})\s*\(\s*', "f(", s)
RECURSIVE Rewrite1From(_, _)
Rewrite1From(s, i) ==
    IF i > Len(s) THEN <<>>
    ELSE LET m == FuncAlt(s, i, 1)
         IN  IF m[1] # 0
             THEN MATH_FUNCS[m[1]] \o <<"(">> \o Rewrite1From(s, m[2])
             ELSE <<s[i]>> \o Rewrite1From(s, i + 1)

Rewrite1(s) == Rewrite1From(s, 1)

\* 2) re.sub(rf'\b({funcs})\s+([...]+)', "f(token)", s)
RECURSIVE Rewrite2From(_, _)
Rewrite2From(s, i) ==
    IF i > Len(s) THEN <<>>
    ELSE LET m == FuncAlt(s, i, 2)
         IN  IF m[1] # 0
             THEN LET f == MATH_FUNCS[m[1]]
                      p == SkipSpace(s, i + Len(f))
                  IN  f \o <<"(">> \o Slice(s, p, m[2] - 1) \o <<")">>
                        \o Rewrite2From(s, m[2])
             ELSE <<s[i]>> \o Rewrite2From(s, i + 1)

Rewrite2(s) == Rewrite2From(s, 1)

\* 3) re.sub(rf'\b({funcs})([A-Za-z0-9\.\_\^]+)', "f(token)", s)
RECURSIVE Rewrite3From(_, _)
Rewrite3From(s, i) ==
    IF i > Len(s) THEN <<>>
    ELSE LET m == FuncAlt(s, i, 3)
         IN  IF m[1] # 0
             THEN LET f == MATH_FUNCS[m[1]]
                  IN  f \o <<"(">> \o Slice(s, i + Len(f), m[2] - 1) \o <<")">>
                        \o Rewrite3From(s, m[2])
             ELSE <<s[i]>> \o Rewrite3From(s, i + 1)

Rewrite3(s) == Rewrite3From(s, 1)

\* 4) re.sub(r'(?P<num>\d)(?P<var>[A-Za-z])', r'\g<num>*\g<var>', s)
RECURSIVE Rewrite4From(_, _)
Rewrite4From(s, i) ==
    IF i > Len(s) THEN <<>>
    ELSE IF i < Len(s) /\ IsDigit(s[i]) /\ IsLetter(s[i + 1])
         THEN <<s[i], "*", s[i + 1]>> \o Rewrite4From(s, i + 2)
         ELSE <<s[i]>> \o Rewrite4From(s, i + 1)

Rewrite4(s) == Rewrite4From(s, 1)

\* replacement callback of rewrite 5
add_mul_between_before_paren(name) ==
    IF IsMathFunc(name) THEN name \o <<"(">> ELSE name \o <<"*", "(">>

\* 5) re.sub(r'([A-Za-z0-9_]+)\(', add_mul_between_before_paren, s)
\* The greedy run of word characters can only be followed by '(' when it is
\* taken whole, and the leftmost match starts where the scan meets the run.
RECURSIVE Rewrite5From(_, _)
Rewrite5From(s, i) ==
    IF i > Len(s) THEN <<>>
    ELSE LET e == SkipWord(s, i)
         IN  IF e > i /\ e <= Len(s) /\ s[e] = "("
             THEN add_mul_between_before_paren(Slice(s, i, e - 1))
                    \o Rewrite5From(s, e + 1)
             ELSE <<s[i]>> \o Rewrite5From(s, i + 1)

Rewrite5(s) == Rewrite5From(s, 1)

\* 6) s.replace(')(', ')*(')
Rewrite6(s) == Replace(s, <<")", "(">>, <<")", "*", "(">>)

preprocess_input(expr_str) ==
    LET s0 == Strip(expr_str)
        s1 == Replace(s0, <<"^">>, <<"*", "*">>)
        s2 == CollapseSpace(s1)
        s3 == Rewrite1(s2)
        s4 == Rewrite2(s3)
        s5 == Rewrite3(s4)
        s6 == Rewrite4(s5)
        s7 == Rewrite5(s6)
        s8 == Rewrite6(s7)
    IN  Strip(s8)


-----------------------------------------------------------------------------
(* The computer-algebra library as the app uses it (sympy).                *)
(*                                                                         *)
(* An expression is kept in sympy's automatically evaluated form: a sum,   *)
(* the set of its terms <<coefficient, monomial>>; a monomial is a set of  *)
(* factors <<atom, exponent>>; an atom is <<kind, name, argument>> with    *)
(* kind "sym" (a Symbol), "const" (pi, E), "fn" (a function applied to an  *)
(* expression) or "add" (a sum of two or more terms used as a factor,      *)
(* which sympy leaves unexpanded).  Like terms and like factors combine,   *)
(* and a number times a sum distributes, as in sympy's Add and Mul.        *)

ENum(n) == IF n = 0 THEN {} ELSE {<<n, {}>>}

EAtom(a) == {<<1, {<<a, 1>>}>>}

ESym(name) == EAtom(<<"sym", name, {}>>)

\* coefficient of monomial m in e
Coef(e, m) ==
    IF \E t \in e : t[2] = m THEN (CHOOSE t \in e : t[2] = m)[1] ELSE 0

EAdd(e1, e2) ==
    {<<Coef(e1, m) + Coef(e2, m), m>> :
        m \in {n \in {t[2] : t \in e1 \cup e2} : Coef(e1, n) + Coef(e2, n) # 0}}

EScale(k, e) == IF k = 0 THEN {} ELSE {<<k * t[1], t[2]>> : t \in e}

ENeg(e) == EScale(-1, e)

ESub(e1, e2) == EAdd(e1, ENeg(e2))

\* exponent of atom a in monomial m
ExpOf(m, a) ==
    IF \E f \in m : f[1] = a THEN (CHOOSE f \in m : f[1] = a)[2] ELSE 0

MonoMul(m1, m2) ==
    {<<a, ExpOf(m1, a) + ExpOf(m2, a)>> :
        a \in {b \in {f[1] : f \in m1 \cup m2} : ExpOf(m1, b) + ExpOf(m2, b) # 0}}

\* a non-zero expression as one term: a sum of several terms is one factor
AsTerm(e) ==
    IF Cardinality(e) = 1 THEN CHOOSE t \in e : TRUE
    ELSE <<1, {<<<<"add", <<>>, e>>, 1>>}>>

\* the expression of a term: a number times a lone sum distributes
TermExpr(t) ==
    IF t[1] = 0 THEN {}
    ELSE IF Cardinality(t[2]) = 1
            /\ (CHOOSE f \in t[2] : TRUE)[1][1] = "add"
            /\ (CHOOSE f \in t[2] : TRUE)[2] = 1
         THEN EScale(t[1], (CHOOSE f \in t[2] : TRUE)[1][3])
         ELSE {t}

EMul(e1, e2) ==
    IF e1 = {} \/ e2 = {} THEN {}
    ELSE LET t1 == AsTerm(e1)
             t2 == AsTerm(e2)
         IN  TermExpr(<<t1[1] * t2[1], MonoMul(t1[2], t2[2])>>)

\* k to the power n, n >= 0
RECURSIVE IntPow(_, _)
IntPow(k, n) ==
    IF n = 0 \/ k = 1 THEN 1
    ELSE IF k = -1 THEN (IF n % 2 = 0 THEN 1 ELSE -1)
    ELSE k * IntPow(k, n - 1)

IsNumber(e) == e = {} \/ (Cardinality(e) = 1 /\ \A t \in e : t[2] = {})

NumberOf(e) == IF e = {} THEN 0 ELSE (CHOOSE t \in e : TRUE)[1]

\* e ** n for an integer n; the coefficient of e is 1 or -1 unless n is in 0..3
EPow(e, n) ==
    IF n = 0 THEN ENum(1)
    ELSE IF e = {} THEN {}
    ELSE LET t == AsTerm(e)
             c == IF n > 0 THEN IntPow(t[1], n)
                  ELSE IF n % 2 = 0 THEN 1 ELSE t[1]
         IN  TermExpr(<<c, {<<f[1], f[2] * n>> : f \in t[2]}>>)

\* can e be raised to the integer power n in this form
PowModelled(e, n) ==
    \/ n \in 0..3
    \/ n > 3 /\ e = {}
    \/ e # {} /\ AsTerm(e)[1] \in {1, -1}

\* f(e), with sympy's evaluation of sin(0) and cos(0)
EFn(f, e) ==
    IF f = <<"s","i","n">> /\ e = {} THEN {}
    ELSE IF f = <<"c","o","s">> /\ e = {} THEN ENum(1)
    ELSE EAtom(<<"fn", f, e>>)

\* expr.free_symbols, as the set of the symbols' names
RECURSIVE FreeSymbols(_)
FreeSymbols(e) ==
    UNION {UNION {IF f[1][1] = "sym" THEN {f[1][2]}
                  ELSE IF f[1][1] \in {"fn", "add"} THEN FreeSymbols(f[1][3])
                  ELSE {} : f \in t[2]} : t \in e}

\* the functions whose derivative is in the model
DiffModelledFuncs == {<<"s","i","n">>, <<"c","o","s">>}

\* every function applied in e is one whose derivative is in the model
RECURSIVE DiffModelled(_)
DiffModelled(e) ==
    \A t \in e : \A f \in t[2] :
        /\ f[1][1] = "fn" => f[1][2] \in DiffModelledFuncs /\ DiffModelled(f[1][3])
        /\ f[1][1] = "add" => DiffModelled(f[1][3])

\* sympy.diff(e, v) for a symbol named v
RECURSIVE EDiff(_, _)
RECURSIVE DiffAtom(_, _)
RECURSIVE DiffFactors(_, _, _)
EDiff(e, v) ==
    IF e = {} THEN {}
    ELSE LET t == CHOOSE t \in e : TRUE
         IN  EAdd(DiffFactors(t, t[2], v), EDiff(e \ {t}, v))

\* product rule over the factors fs of term t
DiffFactors(t, fs, v) ==
    IF fs = {} THEN {}
    ELSE LET f == CHOOSE f \in fs : TRUE
             lowered == IF f[2] = 1 THEN t[2] \ {f}
                        ELSE (t[2] \ {f}) \cup {<<f[1], f[2] - 1>>}
         IN  EAdd(EMul(TermExpr(<<t[1] * f[2], lowered>>), DiffAtom(f[1], v)),
                  DiffFactors(t, fs \ {f}, v))

DiffAtom(a, v) ==
    IF a[1] = "sym" THEN (IF a[2] = v THEN ENum(1) ELSE {})
    ELSE IF a[1] = "add" THEN EDiff(a[3], v)
    ELSE IF a[1] = "fn" /\ a[2] = <<"s","i","n">>
         THEN EMul(EFn(<<"c","o","s">>, a[3]), EDiff(a[3], v))
    ELSE IF a[1] = "fn" /\ a[2] = <<"c","o","s">>
         THEN EMul(ENeg(EFn(<<"s","i","n">>, a[3])), EDiff(a[3], v))
    ELSE {}

-----------------------------------------------------------------------------
(* parse_expr(s, local_dict=LOCAL_DICT): Python's tokens and expression    *)
(* grammar, names resolved as sympy's auto_symbol does, and the value of   *)
(* the expression.  A value is [t, e]: t = "expr" with the expression e,   *)
(* "function" for a function object, "SyntaxError", "TypeError" or         *)
(* "ValueError" for the exception raised, and "unmodelled" for a value     *)
(* this form cannot hold.                                                  *)

Val(t, e) == [t |-> t, e |-> e]
VExpr(e) == Val("expr", e)
VRaise(kind) == Val(kind, {})
Unmodelled == Val("unmodelled", {})
NoVal == Val("none", {})

IsRaised(v) == v.t \in {"SyntaxError", "TypeError", "ValueError", "SympifyError"}

\* the functions of LOCAL_DICT
LOCAL_DICT ==
    { <<"s","i","n">>, <<"c","o","s">>, <<"t","a","n">>, <<"s","e","c">>,
      <<"c","s","c">>, <<"c","o","t">>, <<"e","x","p">>, <<"l","o","g">>,
      <<"s","q","r","t">> }

\* the constants of LOCAL_DICT
LocalConstants == { <<"p","i">>, <<"E">> }

\* functions that only sympy's namespace supplies to parse_expr
GlobalFuncs == { <<"a","s","i","n">>, <<"a","c","o","s">>, <<"a","t","a","n">> }

DiffName == <<"d","i","f","f">>

\* Python keywords that the letters of an input can spell
PyKeywords ==
    { <<"o","r">>, <<"i","n">>, <<"i","s">>, <<"i","f">>, <<"a","s">>,
      <<"a","n","d">>, <<"n","o","t">>, <<"f","o","r">>, <<"t","r","y">>,
      <<"d","e","f">>, <<"d","e","l">> }

Digits10 == <<"0","1","2","3","4","5","6","7","8","9">>

DigitVal(c) == (CHOOSE k \in 1..10 : Digits10[k] = c) - 1

\* value of the decimal digits s[i..j], given the value acc of those before
RECURSIVE NumVal(_, _, _, _)
NumVal(s, i, j, acc) ==
    IF i > j THEN acc ELSE NumVal(s, i + 1, j, 10 * acc + DigitVal(s[i]))

\* A token is <<kind, text, number>>, kind "num", "name", "op" or "err", and
\* "sym" once a local dictionary bound the name to a Symbol.
\* The tokens of s from index i; a '#' starts a comment that runs to the end.
RECURSIVE TokensFrom(_, _)
TokensFrom(s, i) ==
    IF i > Len(s) \/ s[i] = "#" THEN <<>>
    ELSE IF IsSpace(s[i]) THEN TokensFrom(s, i + 1)
    ELSE IF IsDigit(s[i]) THEN
        LET e == CHOOSE e \in (i + 1)..(Len(s) + 1) :
                    /\ \A j \in i..(e - 1) : IsDigit(s[j])
                    /\ e > Len(s) \/ ~IsDigit(s[e])
            kind == IF s[i] = "0" /\ e > i + 1 THEN "err" ELSE "num"
        IN  <<<<kind, Slice(s, i, e - 1), NumVal(s, i, e - 1, 0)>>>>
              \o TokensFrom(s, e)
    ELSE IF IsLetter(s[i]) \/ s[i] = "_" THEN
        LET e == SkipWord(s, i)
        IN  <<<<"name", Slice(s, i, e - 1), 0>>>> \o TokensFrom(s, e)
    ELSE IF StartsAt(s, i, <<"*", "*">>) THEN
        <<<<"op", <<"*", "*">>, 0>>>> \o TokensFrom(s, i + 2)
    ELSE IF s[i] \in {"+", "-", "*", "/", "(", ")", "="} THEN
        <<<<"op", <<s[i]>>, 0>>>> \o TokensFrom(s, i + 1)
    ELSE <<<<"err", <<s[i]>>, 0>>>> \o TokensFrom(s, i + 1)

Tokens(s) == TokensFrom(s, 1)

\* token i is the operator op
IsOp(toks, i, op) == i <= Len(toks) /\ toks[i][1] = "op" /\ toks[i][2] = op

\* a + b, a - b, a * b, a / b, a ** b on values, left operand first
BinOp(op, a, b) ==
    IF a.t = "unmodelled" \/ (~IsRaised(a) /\ b.t = "unmodelled") THEN Unmodelled
    ELSE IF IsRaised(a) THEN a
    ELSE IF IsRaised(b) THEN b
    ELSE IF a.t = "function" \/ b.t = "function" THEN VRaise("TypeError")
    ELSE IF op = <<"+">> THEN VExpr(EAdd(a.e, b.e))
    ELSE IF op = <<"-">> THEN VExpr(ESub(a.e, b.e))
    ELSE IF op = <<"*">> THEN VExpr(EMul(a.e, b.e))
    ELSE IF op = <<"/">> THEN
        (IF b.e # {} /\ PowModelled(b.e, -1)
         THEN VExpr(EMul(a.e, EPow(b.e, -1))) ELSE Unmodelled)
    ELSE IF IsNumber(b.e) /\ PowModelled(a.e, NumberOf(b.e))
         THEN VExpr(EPow(a.e, NumberOf(b.e)))
         ELSE Unmodelled

\* -a
Negate(a) ==
    IF a.t = "expr" THEN VExpr(ENeg(a.e))
    ELSE IF a.t = "function" THEN VRaise("TypeError")
    ELSE a

\* f(a) for a function name f of the namespace
CallFunc(f, a) ==
    IF a.t # "expr" THEN (IF a.t = "function" THEN VRaise("TypeError") ELSE a)
    ELSE IF f = DiffName THEN
        \* sympy.diff(a): with respect to the one free symbol of a
        (IF FreeSymbols(a.e) = {}
         THEN (IF IsNumber(a.e) THEN VExpr({}) ELSE Unmodelled)
         ELSE IF Cardinality(FreeSymbols(a.e)) > 1 THEN VRaise("ValueError")
         ELSE IF DiffModelled(a.e)
              THEN VExpr(EDiff(a.e, CHOOSE v \in FreeSymbols(a.e) : TRUE))
              ELSE Unmodelled)
    ELSE VExpr(EFn(f, a.e))

IsFuncName(name) == name \in LOCAL_DICT \cup GlobalFuncs \cup {DiffName}

\* +a
Plus(a) == IF a.t = "function" THEN VRaise("TypeError") ELSE a

\* v(a) for a value v that is not a name of the namespace
CallValue(v, a) ==
    IF IsRaised(v) THEN v ELSE IF IsRaised(a) THEN a ELSE VRaise("TypeError")

\* The expression grammar of Python, by operator precedence.  A pending
\* operator is <<kind, text>>: a binary operator "bin", a sign "neg" or
\* "pos", an open parenthesis "paren", an open call "call" of the function
\* named text, or an open call "callv" of the value below its argument.
Prec(o) ==
    IF o[1] = "bin" THEN (IF o[2] \in {<<"+">>, <<"-">>} THEN 1
                          ELSE IF o[2] \in {<<"*">>, <<"/">>} THEN 2 ELSE 4)
    ELSE IF o[1] \in {"neg", "pos"} THEN 3
    ELSE 0

Pop(st) == SubSeq(st, 1, Len(st) - 1)

Top(st) == st[Len(st)]

\* applies the pending operators that bind tighter than an operator of
\* precedence prec ('**' groups to the right); gives <<values, operators>>
RECURSIVE Reduce(_, _, _, _)
Reduce(vals, ops, prec, right) ==
    IF ops = <<>> \/ Prec(Top(ops)) = 0 THEN <<vals, ops>>
    ELSE IF Prec(Top(ops)) < prec \/ (Prec(Top(ops)) = prec /\ right) THEN <<vals, ops>>
    ELSE IF Top(ops)[1] = "bin"
         THEN Reduce(Append(Pop(Pop(vals)),
                            BinOp(Top(ops)[2], Top(Pop(vals)), Top(vals))),
                     Pop(ops), prec, right)
    ELSE IF Top(ops)[1] = "neg"
         THEN Reduce(Append(Pop(vals), Negate(Top(vals))), Pop(ops), prec, right)
    ELSE Reduce(Append(Pop(vals), Plus(Top(vals))), Pop(ops), prec, right)

\* the value of the tokens from token i on; operand: an operand is due
RECURSIVE Shunt(_, _, _, _, _)
Shunt(toks, i, vals, ops, operand) ==
    IF i > Len(toks) THEN
        (IF operand THEN VRaise("SyntaxError")
         ELSE LET r == Reduce(vals, ops, 0, FALSE)
              IN  IF r[2] # <<>> THEN VRaise("SyntaxError") ELSE r[1][1])
    ELSE IF operand THEN
        (IF toks[i][1] = "num"
         THEN Shunt(toks, i + 1, Append(vals, VExpr(ENum(toks[i][3]))), ops, FALSE)
         \* a name the local dictionary of the call binds to a Symbol
         ELSE IF toks[i][1] = "sym"
         THEN Shunt(toks, i + 1, Append(vals, VExpr(ESym(toks[i][2]))), ops, FALSE)
         ELSE IF toks[i][1] = "name" THEN
            (IF toks[i][2] \in PyKeywords THEN VRaise("SyntaxError")
             ELSE IF toks[i][2] \in LocalConstants
             THEN Shunt(toks, i + 1,
                        Append(vals, VExpr(EAtom(<<"const", toks[i][2], {}>>))), ops, FALSE)
             ELSE IF IsFuncName(toks[i][2]) THEN
                (IF ~IsOp(toks, i + 1, <<"(">>)
                 THEN Shunt(toks, i + 1, Append(vals, Val("function", {})), ops, FALSE)
                 ELSE IF IsOp(toks, i + 2, <<")">>)
                 THEN Shunt(toks, i + 3, Append(vals, VRaise("TypeError")), ops, FALSE)
                 ELSE Shunt(toks, i + 2, vals, Append(ops, <<"call", toks[i][2]>>), TRUE))
             \* auto_symbol: an unknown name before '(' is an undefined Function
             ELSE IF IsOp(toks, i + 1, <<"(">>) THEN Unmodelled
             ELSE Shunt(toks, i + 1, Append(vals, VExpr(ESym(toks[i][2]))), ops, FALSE))
         ELSE IF IsOp(toks, i, <<"(">>) THEN
            \* '()' is the empty tuple
            (IF IsOp(toks, i + 1, <<")">>) THEN Unmodelled
             ELSE Shunt(toks, i + 1, vals, Append(ops, <<"paren", <<>>>>), TRUE))
         ELSE IF IsOp(toks, i, <<"-">>)
         THEN Shunt(toks, i + 1, vals, Append(ops, <<"neg", <<>>>>), TRUE)
         ELSE IF IsOp(toks, i, <<"+">>)
         THEN Shunt(toks, i + 1, vals, Append(ops, <<"pos", <<>>>>), TRUE)
         ELSE VRaise("SyntaxError"))
    ELSE IF toks[i][1] = "op" /\ toks[i][2] \in {<<"+">>, <<"-">>, <<"*">>, <<"/">>, <<"*", "*">>} THEN
        LET o == <<"bin", toks[i][2]>>
            r == Reduce(vals, ops, Prec(o), toks[i][2] = <<"*", "*">>)
        IN  Shunt(toks, i + 1, r[1], Append(r[2], o), TRUE)
    ELSE IF IsOp(toks, i, <<")">>) THEN
        LET r == Reduce(vals, ops, 0, FALSE)
        IN  IF r[2] = <<>> THEN VRaise("SyntaxError")
            ELSE IF Top(r[2])[1] = "paren"
            THEN Shunt(toks, i + 1, r[1], Pop(r[2]), FALSE)
            ELSE IF Top(r[2])[1] = "call"
            THEN Shunt(toks, i + 1,
                       Append(Pop(r[1]), CallFunc(Top(r[2])[2], Top(r[1]))),
                       Pop(r[2]), FALSE)
            ELSE Shunt(toks, i + 1,
                       Append(Pop(Pop(r[1])), CallValue(Top(Pop(r[1])), Top(r[1]))),
                       Pop(r[2]), FALSE)
    ELSE IF IsOp(toks, i, <<"(">>) THEN
        (IF IsOp(toks, i + 1, <<")">>)
         THEN Shunt(toks, i + 2, Append(Pop(vals), CallValue(Top(vals), NoVal)), ops, FALSE)
         ELSE Shunt(toks, i + 1, vals, Append(ops, <<"callv", <<>>>>), TRUE))
    ELSE VRaise("SyntaxError")

\* parse_expr(s, local_dict=LOCAL_DICT)
parse_expr_with_local(s) ==
    IF \E k \in 1..Len(Tokens(s)) : Tokens(s)[k][1] = "err" THEN VRaise("SyntaxError")
    ELSE Shunt(Tokens(s), 1, <<>>, <<>>, TRUE)

-----------------------------------------------------------------------------
(* The page: the text area, the two sidebar widgets and the Run button.    *)

\* the character U+222B (integral sign), one element of a text
IntegralSign == "U+222B"

Alphabet == <<"a","b","c","d","e","f","g","h","i","j","k","l","m",
              "n","o","p","q","r","s","t","u","v","w","x","y","z">>
Capitals == <<"A","B","C","D","E","F","G","H","I","J","K","L","M",
              "N","O","P","Q","R","S","T","U","V","W","X","Y","Z">>

\* str.lower()
lower(s) ==
    [i \in 1..Len(s) |->
        IF s[i] \in Upper THEN Alphabet[CHOOSE k \in 1..26 : Capitals[k] = s[i]]
        ELSE s[i]]

\* str.split(sep) from index i on, cur the part being read
RECURSIVE SplitFrom(_, _, _, _)
SplitFrom(s, i, sep, cur) ==
    IF i > Len(s) THEN <<cur>>
    ELSE IF s[i] = sep THEN <<cur>> \o SplitFrom(s, i + 1, sep, <<>>)
    ELSE SplitFrom(s, i + 1, sep, Append(cur, s[i]))

\* the names of the symbols the caller selected, x when there is none
get_symbols_from_input(var_input_str) ==
    LET parts == SplitFrom(var_input_str, 1, ",", <<>>)
        stripped == [k \in 1..Len(parts) |-> Strip(parts[k])]
        NonEmpty(n) == n # <<>>
        names == SelectSeq(stripped, NonEmpty)
    IN  IF names = <<>> THEN <<<<"x">>>> ELSE names

\* diff(v, var) on a value
Diff(v, var) ==
    IF v.t = "expr"
    THEN (IF DiffModelled(v.e) THEN VExpr(EDiff(v.e, var)) ELSE Unmodelled)
    ELSE IF IsRaised(v) THEN v
    ELSE Unmodelled

\* Eq(l, r): sympy evaluates it to True when l - r is 0 and to False when
\* l - r is another constant
Eq(l, r) ==
    IF l.t # "expr" \/ r.t # "expr" THEN Unmodelled
    ELSE IF ESub(l.e, r.e) = {} THEN Val("True", {})
    ELSE IF FreeSymbols(ESub(l.e, r.e)) = {} THEN Val("False", {})
    ELSE Val("Eq", {})

\* what parse_input did: the branch taken, the directive's variable, the
\* expression of the directive, the two sides of the equation, and the value
\* returned or the exception raised
Form(route, var, inner, left, right, value) ==
    [route |-> route, var |-> var, inner |-> inner,
     left |-> left, right |-> right, value |-> value]

\* re.match(r'^\s*d/d([A-Za-z])\s*(.*)$', s)
ddx_match(s) ==
    LET p == SkipSpace(s, 1)
    IN  StartsAt(s, p, <<"d", "/", "d">>) /\ p + 3 <= Len(s) /\ IsLetter(s[p + 3])

\* re.match(r'^\s*diff\s*\(\s*(.*)\s*\)\s*$', s)
diff_match(s) ==
    LET p == SkipSpace(s, 1)
        o == SkipSpace(s, p + 4)
        t == StripRight(s)
    IN  /\ StartsAt(s, p, DiffName)
        /\ o < Len(t)
        /\ s[o] = "("
        /\ t[Len(t)] = ")"

\* an '=' outside every pair of parentheses
HasEquals_TopLevel(s) ==
    \E i \in 1..Len(s) :
        /\ s[i] = "="
        /\ Cardinality({j \in 1..i : s[j] = "("}) = Cardinality({j \in 1..i : s[j] = ")"})

\* '=' in s
HasEquals(s) == Contains(s, <<"=">>)

\* index at which s.split('=', 1) splits
SplitIndex(s) == CHOOSE i \in 1..Len(s) : s[i] = "=" /\ \A j \in 1..(i - 1) : s[j] # "="

\* the text between the parentheses of diff( ... )
diff_inner(s) ==
    StripLeft(Slice(s, SkipSpace(s, SkipSpace(s, 1) + 4) + 1, Len(StripRight(s)) - 1))

\* return diff(e, var), of the d/dx branch or the diff(...) branch
DirectiveForm(route, var, e) == Form(route, var, e, NoVal, NoVal, Diff(e, var))

\* the d/dx branch, rest the text after d/d<var>
DdxForm(var, rest) ==
    IF rest = <<>>
    THEN Form("ddx", var, NoVal, NoVal, NoVal, VRaise("ValueError"))
    ELSE DirectiveForm("ddx", var, parse_expr_with_local(rest))

\* the diff(...) branch: list(syms)[0] is any of the free symbols
DiffForms(inner_expr) ==
    IF inner_expr.t = "expr" /\ FreeSymbols(inner_expr.e) # {}
    THEN {DirectiveForm("diff", var, inner_expr) : var \in FreeSymbols(inner_expr.e)}
    ELSE {DirectiveForm("diff", <<"x">>, inner_expr)}

\* the '=' branch: the left side is parsed, then the right side
EquationForm(left_e, right_e) ==
    IF IsRaised(left_e) \/ left_e.t = "unmodelled"
    THEN Form("equation", <<>>, NoVal, left_e, NoVal, left_e)
    ELSE IF IsRaised(right_e) \/ right_e.t = "unmodelled"
    THEN Form("equation", <<>>, NoVal, left_e, right_e, right_e)
    ELSE Form("equation", <<>>, NoVal, left_e, right_e, Eq(left_e, right_e))

\* parse_input after its first line, s the normalized text
ParseNormalized(s) ==
    IF ddx_match(s)
    THEN {DdxForm(<<s[SkipSpace(s, 1) + 3]>>,
                  Strip(Slice(s, SkipSpace(s, 1) + 4, Len(s))))}
    ELSE IF diff_match(s)
    THEN DiffForms(parse_expr_with_local(diff_inner(s)))
    ELSE IF HasEquals(s)
    THEN {EquationForm(parse_expr_with_local(Slice(s, 1, SplitIndex(s) - 1)),
                       parse_expr_with_local(Slice(s, SplitIndex(s) + 1, Len(s))))}
    ELSE {Form("plain", <<>>, NoVal, NoVal, NoVal, parse_expr_with_local(s))}

\* The set of outcomes of parse_input(expr_str): one, except in the
\* diff(...) branch.
parse_input(expr_str) == ParseNormalized(preprocess_input(expr_str))

\* what a click on Run displayed or raised
Result(kind, f, v) == [kind |-> kind, f |-> f, v |-> v]

NoResult == Result("none", "", NoVal)

Output(status, form, op, operand, target, result) ==
    [status |-> status, form |-> form, op |-> op, operand |-> operand,
     target |-> target, result |-> result]

NoForm == Form("none", <<>>, NoVal, NoVal, NoVal, NoVal)

NoOutput == Output("none", NoForm, "none", NoVal, <<>>, NoResult)

Auto == "Auto (detect operation)"

\* the options of the selectbox
Operations ==
    { Auto, "Solve equation", "Simplify expression", "Differentiate",
      "Integrate (indefinite)", "Factor", "Expand", "Evaluate (numeric)" }

\* the operation the auto-detect block chooses for the text
AutoDetect(text) ==
    LET s_low == lower(text)
    IN  IF \/ StartsAt(s_low, SkipSpace(s_low, 1), <<"d", "/", "d">>)
           \/ Contains(s_low, <<"d", "i", "f", "f", "(">>)
        THEN "Differentiate"
        ELSE IF \/ Contains(s_low, <<IntegralSign>>)
                \/ Contains(s_low, <<"i","n","t","e","g","r","a","t","e">>)
        THEN "Integrate (indefinite)"
        ELSE IF Contains(s_low, <<"=">>) THEN "Solve equation"
        ELSE "Simplify expression"

\* expr_val.func.__name__ == 'Derivative': the value is an unevaluated
\* derivative
IsDerivative(v) ==
    /\ v.t = "expr"
    /\ \E t \in v.e : t[1] = 1 /\ \E f \in t[2] : t[2] = {f} /\ f[1][1] = "Derivative"

\* solveset(v, target, domain=S.Complexes)
solveset(v) ==
    IF v.t = "True" THEN Result("set", "Complexes", NoVal)
    ELSE IF v.t = "False" THEN Result("set", "EmptySet", NoVal)
    ELSE Result("applied", "solveset", v)

\* parsed.lhs - parsed.rhs if isinstance(parsed, Eq) else parsed
ExprVal(form) ==
    IF form.value.t = "Eq" THEN VExpr(ESub(form.left.e, form.right.e)) ELSE form.value

\* the branch of the Run handler for operation op, on what parse_input gave
Dispatch(form, expr_val, target, op) ==
    IF op = "Solve equation"
    THEN Output("shown", form, op, expr_val, target, solveset(expr_val))
    ELSE IF op = "Simplify expression"
    THEN Output("shown", form, op, expr_val, <<>>, Result("applied", "simplify", expr_val))
    ELSE IF op = "Differentiate"
    THEN (IF IsDerivative(expr_val)
          THEN Output("shown", form, op, expr_val, <<>>, Result("value", "", expr_val))
          ELSE IF expr_val.t = "expr"
          THEN Output("shown", form, op, expr_val, target,
                      Result("value", "", Diff(expr_val, target)))
          ELSE Output("shown", form, op, expr_val, target,
                      Result("applied", "diff", expr_val)))
    ELSE IF op = "Integrate (indefinite)"
    THEN Output("shown", form, op, expr_val, target, Result("applied", "integrate", expr_val))
    ELSE IF op = "Factor"
    THEN Output("shown", form, op, expr_val, <<>>, Result("applied", "factor", expr_val))
    ELSE IF op = "Expand"
    THEN Output("shown", form, op, expr_val, <<>>, Result("applied", "expand", expr_val))
    \* Evaluate (numeric): the Assignments field is created empty
    ELSE Output("info", form, op, expr_val, <<>>, NoResult)

\* the Run handler once parse_input returned or raised
Handle(form, user_syms, op) ==
    IF form.value.t = "SympifyError"
    \* except SympifyError: "Could not parse expression. ..."
    THEN Output("parse_error", form, "none", NoVal, <<>>, NoResult)
    ELSE IF IsRaised(form.value)
    \* except Exception: "An error occurred while processing the input."
    THEN Output("error", form, "none", NoVal, <<>>, NoResult)
    ELSE Dispatch(form, ExprVal(form), user_syms[1], op)

\* the outcomes of the Run handler
RunOutputs(text, var_input_str, selected) ==
    IF Strip(text) = <<>>
    THEN {Output("warning", NoForm, "none", NoVal, <<>>, NoResult)}
    ELSE {Handle(form, get_symbols_from_input(var_input_str),
                 IF selected = Auto THEN AutoDetect(text) ELSE selected) :
             form \in parse_input(text)}

-----------------------------------------------------------------------------
(* streamlit_app.py: the textbook-style solver.  Its page has a selectbox, *)
(* the expression field, the variable field and the Solve button, and it   *)
(* keeps the list st.session_state.history.                                *)

\* the options of the selectbox
SolverOperations == {"Simplify", "Factor", "Solve Equation", "Derivative", "Integral"}

\* re.sub(r'(\d)([a-zA-Z(])', r'\1*\2', expr) from index i on: a match takes
\* both characters, the scan goes on behind them
RECURSIVE MulAfterDigitFrom(_, _)
MulAfterDigitFrom(s, i) ==
    IF i > Len(s) THEN <<>>
    ELSE IF i < Len(s) /\ IsDigit(s[i]) /\ (IsLetter(s[i + 1]) \/ s[i + 1] = "(")
         THEN <<s[i], "*", s[i + 1]>> \o MulAfterDigitFrom(s, i + 2)
         ELSE <<s[i]>> \o MulAfterDigitFrom(s, i + 1)

\* re.sub(r'([a-zA-Z)])([a-zA-Z(])', r'\1*\2', expr) from index i on
RECURSIVE MulAfterLetterFrom(_, _)
MulAfterLetterFrom(s, i) ==
    IF i > Len(s) THEN <<>>
    ELSE IF i < Len(s) /\ (IsLetter(s[i]) \/ s[i] = ")")
                       /\ (IsLetter(s[i + 1]) \/ s[i + 1] = "(")
         THEN <<s[i], "*", s[i + 1]>> \o MulAfterLetterFrom(s, i + 2)
         ELSE <<s[i]>> \o MulAfterLetterFrom(s, i + 1)

preprocess_expression(expr) ==
    MulAfterLetterFrom(MulAfterDigitFrom(Replace(expr, <<"^">>, <<"*", "*">>), 1), 1)

\* symbols(names) of sympy: one Symbol for one name, ValueError for none
symbols(names) ==
    IF Strip(names) = <<>> THEN VRaise("ValueError")
    ELSE IF \A k \in 1..Len(Strip(names)) : IsWord(Strip(names)[k])
    THEN VExpr(ESym(Strip(names)))
    ELSE Unmodelled

\* the functions the dictionary literal names
SolverFunctions ==
    { <<"s","i","n">>, <<"c","o","s">>, <<"t","a","n">>,
      <<"l","o","g">>, <<"e","x","p">>, <<"s","q","r","t">> }

\* the dictionary literal allowed_functions: the entry of the variable comes
\* last, so it is the one a name keeps when the literal names it twice
allowed_functions(names, var) ==
    [n \in SolverFunctions \cup {names} |->
        IF n = names THEN var ELSE Val("function", {})]

\* local_dict at work in parse_expr: a name bound to a Symbol is that Symbol
\* (a Python keyword is never looked up)
BindNames(toks, table) ==
    [k \in 1..Len(toks) |->
        IF /\ toks[k][1] = "name"
           /\ toks[k][2] \notin PyKeywords
           /\ toks[k][2] \in DOMAIN table
           /\ table[toks[k][2]].t = "expr"
        THEN <<"sym", toks[k][2], 0>>
        ELSE toks[k]]

\* parse_expr(s, local_dict=table)
parse_expr_allowed(s, table) ==
    IF \E k \in 1..Len(Tokens(s)) : Tokens(s)[k][1] = "err" THEN VRaise("SyntaxError")
    ELSE Shunt(BindNames(Tokens(s), table), 1, <<>>, <<>>, TRUE)

\* what a click on Solve did: the outcome, the dictionary built, the
\* expression parsed and the result computed
Request(status, table, expr, result) ==
    [status |-> status, table |-> table, expr |-> expr, result |-> result]

NoRequest == Request("none", <<>>, NoVal, NoResult)

\* the operation chosen, applied to the expression; var is the name of the
\* Symbol of the variable field
Operate(table, expr, var, op, equation) ==
    IF IsRaised(expr) THEN Request("error", table, expr, NoResult)
    ELSE IF expr.t # "expr" THEN Request("success", table, expr, Result("value", "", Unmodelled))
    ELSE IF op = "Solve Equation" \/ equation
    THEN Request("success", table, expr, Result("applied", "solve", expr))
    ELSE IF op = "Simplify"
    THEN Request("success", table, expr, Result("applied", "simplify", expr))
    ELSE IF op = "Factor"
    THEN Request("success", table, expr, Result("applied", "factor", expr))
    ELSE IF op = "Derivative"
    THEN Request("success", table, expr, Result("value", "", Diff(expr, var)))
    ELSE Request("success", table, expr, Result("applied", "integrate", expr))

\* the try block of the Solve handler once the dictionary is built
SolveWith(expr_fixed, table, var, op) ==
    IF HasEquals(expr_fixed) /\ op = "Solve Equation"
    THEN Operate(table,
                 BinOp(<<"-">>,
                       parse_expr_allowed(Slice(expr_fixed, 1, SplitIndex(expr_fixed) - 1), table),
                       parse_expr_allowed(Slice(expr_fixed, SplitIndex(expr_fixed) + 1,
                                                Len(expr_fixed)), table)),
                 var, op, TRUE)
    ELSE Operate(table, parse_expr_allowed(expr_fixed, table), var, op, FALSE)

\* the Solve handler
SolveRequest(text, names, op) ==
    IF Strip(text) = <<>> THEN Request("invalid", <<>>, NoVal, NoResult)
    ELSE IF IsRaised(symbols(names)) THEN Request("error", <<>>, symbols(names), NoResult)
    ELSE SolveWith(preprocess_expression(text),
                   allowed_functions(names, symbols(names)), Strip(names), op)

\* a handler that logs the request before it knows how the request ends
AppendOnEveryRequest(h, r, op) == Append(h, <<r.expr, op, r.result>>)

\* the history after a request that ended as r: an entry is appended where
\* the try block got past the operation
HistoryAfter(h, r, op) ==
    IF r.status = "success" THEN Append(h, <<r.expr, op, r.result>>) ELSE h

-----------------------------------------------------------------------------
(* shitmario.py: the platformer.  Lengths and speeds are in tenths of a    *)
(* pixel, so that 0.9, 1.4 and 1.6 are whole numbers; FRICTION is in       *)
(* tenths.  A rectangle is [x, y, w, h].                                   *)

W == 9000
H == 5400
FLOOR_Y == 4700
GRAVITY == 9
MOVE_ACCEL == 14
MAX_SPEED == 70
FRICTION == 8
JUMP_VEL == 180
COIN_R == 80
PLAYER_SIZE == <<280, 340>>
ENEMY_SIZE == <<260, 240>>

Rect(x, y, w, h) == [x |-> x, y |-> y, w |-> w, h |-> h]

\* Rect.intersects
intersects(self, other) ==
    ~ \/ self.x + self.w <= other.x
      \/ self.x >= other.x + other.w
      \/ self.y + self.h <= other.y
      \/ self.y >= other.y + other.h

PLATFORMS ==
    << Rect(0, FLOOR_Y, W, H - FLOOR_Y),
       Rect(1100, 4100, 1200, 160),
       Rect(2800, 3600, 1200, 160),
       Rect(4600, 3200, 1200, 160),
       Rect(6200, 2800, 1200, 160),
       Rect(7400, 2300, 1100, 160),
       Rect(3900, 4500, 800, 160) >>

COINS ==
    << <<1700, 3800>>, <<2200, 3800>>, <<3200, 3300>>, <<3700, 3300>>,
       <<5000, 2900>>, <<5500, 2900>>, <<6600, 2500>>, <<7100, 2500>>,
       <<7800, 2000>> >>

Enemy(rect, left, right, vx, alive) ==
    [rect |-> rect, left |-> left, right |-> right, vx |-> vx, alive |-> alive]

ENEMIES_START ==
    << Enemy(Rect(3200, FLOOR_Y - ENEMY_SIZE[2], ENEMY_SIZE[1], ENEMY_SIZE[2]),
             3000, 4500, 14, TRUE),
       Enemy(Rect(6200, FLOOR_Y - ENEMY_SIZE[2], ENEMY_SIZE[1], ENEMY_SIZE[2]),
             6000, 7600, 16, TRUE) >>

FLAG == Rect(W - 600, FLOOR_Y - 1200, 140, 1200)

\* Player(rect=Rect(40, FLOOR_Y - PLAYER_SIZE[1], *PLAYER_SIZE))
Player ==
    [rect |-> Rect(400, FLOOR_Y - PLAYER_SIZE[2], PLAYER_SIZE[1], PLAYER_SIZE[2]),
     vx |-> 0, vy |-> 0, on_ground |-> FALSE, facing |-> 1]

\* st.session_state after init_state(), the toggles Left and Right being
\* hold_left and hold_right
init_state(hold_left, hold_right) ==
    [player |-> Player, enemies |-> ENEMIES_START, score |-> 0, lives |-> 3,
     win |-> FALSE, game_over |-> FALSE, collected |-> {}, ticks |-> 0,
     paused |-> FALSE, hold_left |-> hold_left, hold_right |-> hold_right]

\* reset_level(hard=False)
reset_level(g) ==
    [g EXCEPT !.player = [@ EXCEPT !.rect = Player.rect, !.vx = 0, !.vy = 0,
                                   !.on_ground = FALSE],
              !.enemies = ENEMIES_START,
              !.win = FALSE,
              !.game_over = FALSE]

lose_life(g) ==
    reset_level([g EXCEPT !.lives = @ - 1,
                          !.game_over = IF g.lives - 1 <= 0 THEN TRUE ELSE @])

\* index of the first platform that r intersects, 0 when there is none
FirstSolid(r) ==
    IF \E k \in 1..Len(PLATFORMS) : intersects(r, PLATFORMS[k])
    THEN CHOOSE k \in 1..Len(PLATFORMS) :
            /\ intersects(r, PLATFORMS[k])
            /\ \A j \in 1..(k - 1) : ~intersects(r, PLATFORMS[j])
    ELSE 0

\* horiz_collide(r, dx, PLATFORMS): the rectangle it leaves and what it
\* returns
horiz_collide(r, dx) ==
    LET k == FirstSolid([r EXCEPT !.x = @ + dx])
    IN  IF k = 0 THEN <<[r EXCEPT !.x = @ + dx], FALSE>>
        ELSE IF dx > 0 THEN <<[r EXCEPT !.x = PLATFORMS[k].x - r.w], TRUE>>
        ELSE IF dx < 0 THEN <<[r EXCEPT !.x = PLATFORMS[k].x + PLATFORMS[k].w], TRUE>>
        ELSE <<r, TRUE>>

\* vert_collide(r, dy, PLATFORMS)
vert_collide(r, dy) ==
    LET k == FirstSolid([r EXCEPT !.y = @ + dy])
    IN  IF k = 0 THEN <<[r EXCEPT !.y = @ + dy], FALSE>>
        ELSE IF dy > 0 THEN <<[r EXCEPT !.y = PLATFORMS[k].y - r.h], TRUE>>
        ELSE IF dy < 0 THEN <<[r EXCEPT !.y = PLATFORMS[k].y + PLATFORMS[k].h], TRUE>>
        ELSE <<r, TRUE>>

\* ax of game_step
Accel(left, right) ==
    (IF left THEN -MOVE_ACCEL ELSE 0) + (IF right THEN MOVE_ACCEL ELSE 0)

\* p.vx after the acceleration ax, the clamp and the friction; a speed in
\* tenths that is below 0.05 pixel is 0
Speed(vx, ax) ==
    LET v == IF vx + ax > MAX_SPEED THEN MAX_SPEED
             ELSE IF vx + ax < -MAX_SPEED THEN -MAX_SPEED ELSE vx + ax
    IN  IF ax = 0 THEN (v * FRICTION) \div 10 ELSE v

\* game_step up to the gravity: movement keys, clamp, friction, jump
Steer(p, left, right, jump_once) ==
    [p EXCEPT !.facing = IF right THEN 1 ELSE IF left THEN -1 ELSE @,
              !.vx = Speed(p.vx, Accel(left, right)),
              !.vy = (IF jump_once /\ p.on_ground THEN -JUMP_VEL ELSE @) + GRAVITY,
              !.on_ground = IF jump_once /\ p.on_ground THEN FALSE ELSE @]

\* the horizontal collision of game_step, c what horiz_collide gave
CollideX(p, c) == [p EXCEPT !.rect = c[1], !.vx = IF c[2] THEN 0 ELSE @]

\* the vertical collision of game_step, c what vert_collide gave
CollideY(p, c) ==
    [p EXCEPT !.rect = c[1],
              !.on_ground = IF c[2] THEN (IF p.vy > 0 THEN TRUE ELSE @) ELSE FALSE,
              !.vy = IF c[2] THEN 0 ELSE @]

\* the world bounds of game_step on the right
RightBound(p) ==
    IF p.rect.x + p.rect.w > W THEN [p EXCEPT !.rect.x = W - p.rect.w, !.vx = 0] ELSE p

\* the world bounds of game_step, left then right
WorldBounds(p) ==
    RightBound(IF p.rect.x < 0 THEN [p EXCEPT !.rect.x = 0, !.vx = 0] ELSE p)

MoveX(p) == CollideX(p, horiz_collide(p.rect, p.vx))

MoveY(p) == CollideY(p, vert_collide(p.rect, p.vy))

\* the coins of COINS (counted from 1) that the player touches
Touched(r) ==
    { i \in 1..Len(COINS) :
        intersects(Rect(COINS[i][1] - COIN_R, COINS[i][2] - COIN_R, COIN_R * 2, COIN_R * 2), r) }

\* the coin loop of game_step
CollectCoins(g) ==
    [g EXCEPT !.collected = @ \cup Touched(g.player.rect),
              !.score = @ + 10 * Cardinality(Touched(g.player.rect) \ g.collected)]

\* the patrol of an enemy at its right end
TurnLeft(e) ==
    IF e.rect.x + e.rect.w > e.right
    THEN [e EXCEPT !.rect.x = e.right - e.rect.w,
                   !.vx = IF e.vx < 0 THEN e.vx ELSE -e.vx]
    ELSE e

\* the patrol of an enemy
Patrol(e) ==
    TurnLeft(IF e.rect.x + e.vx < e.left
             THEN [e EXCEPT !.rect.x = e.left, !.vx = IF e.vx < 0 THEN -e.vx ELSE e.vx]
             ELSE [e EXCEPT !.rect.x = @ + e.vx])

\* the end of game_step: the flag and the tick
Finish(g) ==
    IF intersects(g.player.rect, FLAG)
    THEN [g EXCEPT !.win = TRUE, !.score = @ + 100, !.ticks = @ + 1]
    ELSE [g EXCEPT !.ticks = @ + 1]

\* the meeting of the player and the enemy e, enemy i of the loop
Meet(g, i, e) ==
    IF ~intersects(g.player.rect, e.rect) THEN [g EXCEPT !.enemies[i] = e]
    ELSE IF g.player.vy > 0 /\ g.player.rect.y + g.player.rect.h - e.rect.y < 140
    THEN [g EXCEPT !.enemies[i] = [e EXCEPT !.alive = FALSE],
                   !.player.vy = -((JUMP_VEL * 7) \div 10),
                   !.score = @ + 50]
    ELSE lose_life(g)

\* the enemy loop of game_step from enemy i on, and what follows it; lives
\* is the number of lives when the loop began
RECURSIVE EnemyLoop(_, _, _)
EnemyLoop(g, i, lives) ==
    IF g.lives # lives THEN g
    ELSE IF i > Len(g.enemies) THEN Finish(g)
    ELSE IF ~g.enemies[i].alive THEN EnemyLoop(g, i + 1, lives)
    ELSE EnemyLoop(Meet(g, i, Patrol(g.enemies[i])), i + 1, lives)

\* game_step once the player has moved
AfterMove(g) ==
    IF g.player.rect.y > H + 2000 THEN lose_life(g)
    ELSE EnemyLoop(CollectCoins(g), 1, g.lives)

game_step(g, left, right, jump_once) ==
    IF g.paused \/ g.game_over \/ g.win THEN g
    ELSE AfterMove([g EXCEPT !.player =
                        WorldBounds(MoveY(MoveX(Steer(g.player, left, right, jump_once))))])

-----------------------------------------------------------------------------
(* The normalizer on its own: a text is typed, then preprocess_input is    *)
(* applied to it.                                                          *)

MaxKeys == 4
MaxFuncs == 1

CharKeys == {"x", "a", " ", "(", ")"}

InitNorm ==
    /\ expr_input = <<>>
    /\ var_input = <<"x">>
    /\ operation = Auto
    /\ ran = FALSE
    /\ s_norm = <<>>
    /\ out = NoOutput
    /\ edits = 0
    /\ nfuncs = 0
    /\ history = <<>>
    /\ game = <<>>

TypeChar ==
    /\ ~ran
    /\ edits < MaxKeys
    /\ \E c \in CharKeys : expr_input' = Append(expr_input, c)
    /\ edits' = edits + 1
    /\ UNCHANGED <<var_input, operation, ran, s_norm, out, nfuncs, history, game>>

TypeFunc ==
    /\ ~ran
    /\ edits < MaxKeys
    /\ nfuncs < MaxFuncs
    /\ \E k \in 1..Len(MATH_FUNCS) : expr_input' = expr_input \o MATH_FUNCS[k]
    /\ edits' = edits + 1
    /\ nfuncs' = nfuncs + 1
    /\ UNCHANGED <<var_input, operation, ran, s_norm, out, history, game>>

Normalize ==
    /\ ~ran
    /\ ran' = TRUE
    /\ s_norm' = preprocess_input(expr_input)
    /\ UNCHANGED <<expr_input, var_input, operation, out, edits, nfuncs, history, game>>

NextNorm == TypeChar \/ TypeFunc \/ Normalize

SpecNorm == InitNorm /\ [][NextNorm]_vars

\* The normalizer on texts of letters, digits, '^' and parentheses.
PlainKeys == {"x", "y", "2", "3", "^", "(", ")"}

TypePlain ==
    /\ ~ran
    /\ edits < MaxKeys
    /\ \E c \in PlainKeys : expr_input' = Append(expr_input, c)
    /\ edits' = edits + 1
    /\ UNCHANGED <<var_input, operation, ran, s_norm, out, nfuncs, history, game>>

NextPlain == TypePlain \/ Normalize

SpecPlain == InitNorm /\ [][NextPlain]_vars

\* The normalizer on texts in which function names follow one another or a
\* digit.
MaxNames == 2

NestKeys == {"x", "2", " "}

TypeNestKey ==
    /\ ~ran
    /\ edits < MaxKeys
    /\ \E c \in NestKeys : expr_input' = Append(expr_input, c)
    /\ edits' = edits + 1
    /\ UNCHANGED <<var_input, operation, ran, s_norm, out, nfuncs, history, game>>

TypeName ==
    /\ ~ran
    /\ edits < MaxKeys
    /\ nfuncs < MaxNames
    /\ \E k \in 1..Len(MATH_FUNCS) : expr_input' = expr_input \o MATH_FUNCS[k]
    /\ edits' = edits + 1
    /\ nfuncs' = nfuncs + 1
    /\ UNCHANGED <<var_input, operation, ran, s_norm, out, history, game>>

NextNest == TypeNestKey \/ TypeName \/ Normalize

SpecNest == InitNorm /\ [][NextNest]_vars

-----------------------------------------------------------------------------
(* The page in use: the widgets are edited and Run is clicked.  An edit    *)
(* of a widget reruns the script with the button not clicked, so what Run  *)
(* displayed is gone.                                                      *)

MaxEdits == 3

\* the value the text area starts with
DefaultText ==
    <<"d", "/", "d", "x", " ", "s", "i", "n", "x", " ", " ", "#", " ", "t", "r", "y", ":", " ",
      "d", "/", "d", "x", " ", "s", "i", "n", "x", " ", "o", "r", " ", "d", "/", "d", "x", " ", "s", "i", "n", "(", "x", ")">>

\* texts put into the text area in one edit: the examples of the page, other
\* inputs of each form, and inputs at the borders of the forms
Texts ==
    { <<>>,
      <<"x", "^", "2", " ", "+", " ", "6", "x", " ", "+", " ", "9", " ", "=", " ", "0">>,
      <<"d", "/", "d", "x", " ", "s", "i", "n", "x">>,
      <<"d", "/", "d", "x", " ", "s", "i", "n", "(", "x", ")">>,
      <<"d", "i", "f", "f", "(", "x", "^", "3", ")">>,
      <<"(", "(">>,
      <<IntegralSign, " ", "x", "^", "2">>,
      <<"2", "x", " ", "+", " ", "3", " ", "=", " ", "7">>,
      <<"x", " ", "=", " ", "x">>,
      <<"x", " ", "=", " ", "x", "+", "1">>,
      <<"3", "x", "^", "2">>,
      <<"d", "i", "f", "f", " ", "(", "x", "^", "3", ")">>,
      <<"d", "i", "f", "f", " ", "(", "x", "*", "y", ")">>,
      <<"d", "/", "d", "2">>,
      <<"(", "x", "=", "1", ")">>,
      <<"x", "=", "=", "1">>,
      <<"d", "/", "d", "y", " ", "y", "^", "2">>,
      <<"x", "^", "2", " ", "#", " ", "i", "n", "t", "e", "g", "r", "a", "t", "e">> }

\* what is typed at the end of the text
Typed == { <<"x">>, <<"y">>, <<"2">>, <<"=">>, <<"+", "1">> }

\* what is entered in the Variable(s) field
VarInputs == { <<"x">>, <<>>, <<"y">>, <<"y", ",", "x">> }

Init ==
    /\ expr_input = DefaultText
    /\ var_input = <<"x">>
    /\ operation = Auto
    /\ ran = FALSE
    /\ s_norm = <<>>
    /\ out = NoOutput
    /\ edits = 0
    /\ nfuncs = 0
    /\ history = <<>>
    /\ game = <<>>

EnterText ==
    /\ edits < MaxEdits
    /\ \E t \in Texts : t # expr_input /\ expr_input' = t
    /\ edits' = edits + 1
    /\ ran' = FALSE
    /\ s_norm' = <<>>
    /\ out' = NoOutput
    /\ UNCHANGED <<var_input, operation, nfuncs, history, game>>

TypeKey ==
    /\ edits < MaxEdits
    /\ \E k \in Typed : expr_input' = expr_input \o k
    /\ edits' = edits + 1
    /\ ran' = FALSE
    /\ s_norm' = <<>>
    /\ out' = NoOutput
    /\ UNCHANGED <<var_input, operation, nfuncs, history, game>>

SelectOperation ==
    /\ edits < MaxEdits
    /\ \E o \in Operations : o # operation /\ operation' = o
    /\ edits' = edits + 1
    /\ ran' = FALSE
    /\ s_norm' = <<>>
    /\ out' = NoOutput
    /\ UNCHANGED <<expr_input, var_input, nfuncs, history, game>>

SetVariables ==
    /\ edits < MaxEdits
    /\ \E v \in VarInputs : v # var_input /\ var_input' = v
    /\ edits' = edits + 1
    /\ ran' = FALSE
    /\ s_norm' = <<>>
    /\ out' = NoOutput
    /\ UNCHANGED <<expr_input, operation, nfuncs, history, game>>

Run ==
    /\ ~ran
    /\ ran' = TRUE
    /\ s_norm' = preprocess_input(expr_input)
    /\ out' \in RunOutputs(expr_input, var_input, operation)
    /\ UNCHANGED <<expr_input, var_input, operation, edits, nfuncs, history, game>>

Next == EnterText \/ TypeKey \/ SelectOperation \/ SetVariables \/ Run

Spec == Init /\ [][Next]_vars

\* every value the handler met is one this model holds
Modelled ==
    /\ out.form.value.t \notin {"unmodelled", "function"}
    /\ out.form.inner.t \notin {"unmodelled", "function"}
    /\ out.result.v.t # "unmodelled"

-----------------------------------------------------------------------------
(* The solver page in use.  Every edit of a widget and every click reruns  *)
(* the script; the history is displayed at the end of each rerun, from a   *)
(* reversed copy of its last ten entries.  edits counts the reruns.        *)

MaxReruns == 4

\* expressions entered in one edit
SolverTexts ==
    { <<>>, <<" ">>,
      <<"x">>,
      <<"x", "^", "2">>,
      <<"2", "x">>,
      <<"x", "y">>,
      <<"s", "i", "n", "(", "x", ")">>,
      <<"3", "x", "^", "2", " ", "+", " ", "s", "i", "n", "(", "x", ")">>,
      <<"2", "x", "=", "4">>,
      <<"(", "(">>,
      <<"x", "=">> }

\* what is entered in the variable field
SolverVars == { <<"x">>, <<"y">>, <<>>, <<"s", "i", "n">>, <<"l", "o", "g">> }

InitSolver ==
    /\ expr_input = <<>>
    /\ var_input = <<"x">>
    /\ operation = "Simplify"
    /\ ran = FALSE
    /\ s_norm = <<>>
    /\ out = NoRequest
    /\ edits = 0
    /\ nfuncs = 0
    /\ history = <<>>
    /\ game = <<>>

EnterExpression ==
    /\ edits < MaxReruns
    /\ \E t \in SolverTexts : t # expr_input /\ expr_input' = t
    /\ edits' = edits + 1
    /\ ran' = FALSE
    /\ s_norm' = <<>>
    /\ out' = NoRequest
    /\ UNCHANGED <<var_input, operation, nfuncs, history, game>>

ChooseOperation ==
    /\ edits < MaxReruns
    /\ \E o \in SolverOperations : o # operation /\ operation' = o
    /\ edits' = edits + 1
    /\ ran' = FALSE
    /\ s_norm' = <<>>
    /\ out' = NoRequest
    /\ UNCHANGED <<expr_input, var_input, nfuncs, history, game>>

EnterVariable ==
    /\ edits < MaxReruns
    /\ \E v \in SolverVars : v # var_input /\ var_input' = v
    /\ edits' = edits + 1
    /\ ran' = FALSE
    /\ s_norm' = <<>>
    /\ out' = NoRequest
    /\ UNCHANGED <<expr_input, operation, nfuncs, history, game>>

\* a click on Solve
Solve ==
    /\ edits < MaxReruns
    /\ edits' = edits + 1
    /\ ran' = TRUE
    /\ s_norm' = preprocess_expression(expr_input)
    /\ out' = SolveRequest(expr_input, var_input, operation)
    /\ history' = HistoryAfter(history, out', operation)
    /\ UNCHANGED <<expr_input, var_input, operation, nfuncs, game>>

NextSolver == EnterExpression \/ ChooseOperation \/ EnterVariable \/ Solve

SpecSolver == InitSolver /\ [][NextSolver]_vars

-----------------------------------------------------------------------------
(* The platformer in play.  Every click and every toggle reruns the        *)
(* script, and so does a refresh of the page: the buttons act first, then  *)
(* the toggles are read, then game_step is called once.  edits counts the  *)
(* toggles switched and nfuncs the buttons clicked.                        *)

MaxToggles == 1
MaxClicks == 1
MaxTicks == 142

\* the friction of the step at hand gives a whole number of tenths
FrictionExact(g) ==
    Accel(g.hold_left, g.hold_right) # 0 \/ (g.player.vx * FRICTION) % 10 = 0

\* the edges of a and b meet and the rectangles do not overlap
Touching(a, b) ==
    ~intersects(a, b) /\ intersects(Rect(a.x - 1, a.y - 1, a.w + 2, a.h + 2), b)

\* the player meets no enemy edge to edge, p the player after its movement
NoContact(g, p) ==
    \A i \in 1..Len(g.enemies) :
        g.enemies[i].alive => ~Touching(p.rect, Patrol(g.enemies[i]).rect)

\* The step at hand is decided by whole tenths.  The program adds floats,
\* whose sums miss the tenths by a rounding error; where the friction leaves
\* the tenths, or two edges meet exactly, that error decides, and the step
\* is left out.
Decided(g, jump_once) ==
    /\ FrictionExact(g)
    /\ g.paused \/ g.game_over \/ g.win
         \/ NoContact(g, WorldBounds(MoveY(MoveX(
                Steer(g.player, g.hold_left, g.hold_right, jump_once)))))

\* the script from the line that calls game_step
Script(g, jump_once) == game_step(g, g.hold_left, g.hold_right, jump_once)

InitGame ==
    /\ expr_input = <<>>
    /\ var_input = <<"x">>
    /\ operation = "none"
    /\ ran = FALSE
    /\ s_norm = <<>>
    /\ out = NoOutput
    /\ edits = 0
    /\ nfuncs = 0
    /\ history = <<>>
    /\ game = init_state(FALSE, FALSE)

Rerun ==
    /\ game.ticks < MaxTicks
    /\ Decided(game, FALSE)
    /\ game' = Script(game, FALSE)
    /\ UNCHANGED <<expr_input, var_input, operation, ran, s_norm, out, edits, nfuncs, history>>

PressJump ==
    /\ game.ticks < MaxTicks
    /\ nfuncs < MaxClicks
    /\ Decided(game, TRUE)
    /\ game' = Script(game, TRUE)
    /\ nfuncs' = nfuncs + 1
    /\ UNCHANGED <<expr_input, var_input, operation, ran, s_norm, out, edits, history>>

ToggleLeft ==
    /\ game.ticks < MaxTicks
    /\ edits < MaxToggles
    /\ Decided([game EXCEPT !.hold_left = ~@], FALSE)
    /\ game' = Script([game EXCEPT !.hold_left = ~@], FALSE)
    /\ edits' = edits + 1
    /\ UNCHANGED <<expr_input, var_input, operation, ran, s_norm, out, nfuncs, history>>

ToggleRight ==
    /\ game.ticks < MaxTicks
    /\ edits < MaxToggles
    /\ Decided([game EXCEPT !.hold_right = ~@], FALSE)
    /\ game' = Script([game EXCEPT !.hold_right = ~@], FALSE)
    /\ edits' = edits + 1
    /\ UNCHANGED <<expr_input, var_input, operation, ran, s_norm, out, nfuncs, history>>

TogglePause ==
    /\ game.ticks < MaxTicks
    /\ edits < MaxToggles
    /\ Decided([game EXCEPT !.paused = ~@], FALSE)
    /\ game' = Script([game EXCEPT !.paused = ~@], FALSE)
    /\ edits' = edits + 1
    /\ UNCHANGED <<expr_input, var_input, operation, ran, s_norm, out, nfuncs, history>>

ResetLevel ==
    /\ game.ticks < MaxTicks
    /\ nfuncs < MaxClicks
    /\ Decided(reset_level(game), FALSE)
    /\ game' = Script(reset_level(game), FALSE)
    /\ nfuncs' = nfuncs + 1
    /\ UNCHANGED <<expr_input, var_input, operation, ran, s_norm, out, edits, history>>

NewGame ==
    /\ nfuncs < MaxClicks
    /\ Decided(init_state(game.hold_left, game.hold_right), FALSE)
    /\ game' = Script(init_state(game.hold_left, game.hold_right), FALSE)
    /\ nfuncs' = nfuncs + 1
    /\ UNCHANGED <<expr_input, var_input, operation, ran, s_norm, out, edits, history>>

NextGame ==
    Rerun \/ PressJump \/ ToggleLeft \/ ToggleRight \/ TogglePause \/ ResetLevel \/ NewGame

SpecGame == InitGame /\ [][NextGame]_vars

-----------------------------------------------------------------------------
(* Claims about the normalizer                                             *)

LettersOf(s) == {s[i] : i \in {j \in 1..Len(s) : IsLetter(s[j])}}

Call(f, v) == f \o <<"(", v, ")">>

\* C1: for every name f of MATH_FUNCS and single-letter variable v, the
\* inputs f v ("sinx"), f " " v ("sin x") and f "(" v ")" ("sin(x)") all
\* normalize to exactly f "(" v ")".
C1_FunctionForms ==
    ran =>
      \A k \in 1..Len(MATH_FUNCS) : \A v \in LettersOf(expr_input) :
          LET f == MATH_FUNCS[k]
          IN  expr_input \in {f \o <<v>>, f \o <<" ", v>>, Call(f, v)}
                => s_norm = Call(f, v)

C1_Witness ==
    /\ ran
    /\ expr_input = <<"s","i","n"," ","x">>
    /\ s_norm = <<"s","i","n","(","x",")">>

\* The names of MATH_FUNCS that end with another name of MATH_FUNCS
\* (asin, acos, atan end with sin, cos, tan).
LongFuncs ==
    {k \in 1..Len(MATH_FUNCS) :
        \E m \in 1..Len(MATH_FUNCS) :
            /\ Len(MATH_FUNCS[m]) < Len(MATH_FUNCS[k])
            /\ StartsAt(MATH_FUNCS[k],
                        Len(MATH_FUNCS[k]) - Len(MATH_FUNCS[m]) + 1,
                        MATH_FUNCS[m])}

\* the text t applies the name f at its start: f is followed by an argument
\* glued to it, by blanks and an argument, or by an opening parenthesis
AppliesAtStart(t, f) ==
    /\ StartsAt(t, 1, f)
    /\ LET j == Len(f) + 1
           p == SkipSpace(t, j)
       IN  /\ j <= Len(t)
           /\ \/ IsGluedChar(t[j])
              \/ p > j /\ p <= Len(t) /\ IsTokenChar(t[p])
              \/ p <= Len(t) /\ t[p] = "("

\* C2: longest function name first: "asinx" normalizes to "asin(x)"; a text
\* that applies asin, acos or atan at its start normalizes to a text that
\* starts with the call of that long name, and 'a' is never split from the
\* shorter name by an inserted '*'.
C2_LongestNameFirst ==
    ran =>
      /\ expr_input = <<"a","s","i","n","x">>
            => s_norm = <<"a","s","i","n","(","x",")">>
      /\ \A k \in LongFuncs :
            AppliesAtStart(Strip(expr_input), MATH_FUNCS[k])
               => StartsAt(s_norm, 1, MATH_FUNCS[k] \o <<"(">>)
      /\ \A k \in LongFuncs :
            ~Contains(s_norm, <<"a", "*">> \o Tail(MATH_FUNCS[k]))

C2_Witness ==
    /\ ran
    /\ expr_input = <<"a","s","i","n","x">>
    /\ s_norm = <<"a","s","i","n","(","x",")">>

\* nesting depth of parentheses after s[1..i]; -1 once a ')' had no partner
RECURSIVE ParenDepth(_, _)
ParenDepth(s, i) ==
    IF i = 0 THEN 0
    ELSE LET d == ParenDepth(s, i - 1)
         IN  IF d < 0 THEN -1
             ELSE IF s[i] = "(" THEN d + 1
             ELSE IF s[i] = ")" THEN d - 1
             ELSE d

\* only digits, letters, '^' and matched parentheses
PlainInput(s) ==
    /\ \A i \in 1..Len(s) : IsDigit(s[i]) \/ IsLetter(s[i]) \/ s[i] \in {"^", "(", ")"}
    /\ ParenDepth(s, Len(s)) = 0

\* the maximal run of letters around s[i] is a known function name that is
\* immediately followed by '('
InCalledFunction(s, i) ==
    \E a \in 1..i : \E b \in i..Len(s) :
        /\ \A j \in a..b : IsLetter(s[j])
        /\ a = 1 \/ ~IsLetter(s[a - 1])
        /\ b < Len(s) /\ s[b + 1] = "("
        /\ IsMathFunc(Slice(s, a, b))

\* C3: for an input of digits, letters, '^' and matched parentheses the
\* normalized text holds no '^', no digit immediately followed by a letter,
\* and no two adjacent letters other than the letters of a known function
\* name that is immediately followed by '('.
C3_NoImplicitProductLeft ==
    (ran /\ PlainInput(expr_input)) =>
      /\ ~Contains(s_norm, <<"^">>)
      /\ \A i \in 1..(Len(s_norm) - 1) :
            ~(IsDigit(s_norm[i]) /\ IsLetter(s_norm[i + 1]))
      /\ \A i \in 1..(Len(s_norm) - 1) :
            (IsLetter(s_norm[i]) /\ IsLetter(s_norm[i + 1]))
               => InCalledFunction(s_norm, i)

-----------------------------------------------------------------------------
(* Claims about the router and the dispatcher                              *)

SinX == EFn(<<"s","i","n">>, ESym(<<"x">>))

CosX == EFn(<<"c","o","s">>, ESym(<<"x">>))

\* C4: for an input "d/d<v> <expr>" the d/dx branch yields the variable <v>
\* and the expression the normalized <expr>, and the result the Differentiate
\* operation shows is the first derivative of that expression with respect
\* to <v>: for "d/dx sinx", x, sin(x) and cos(x).
C4_DirectiveDifferentiatedOnce ==
    (ran /\ out.form.route = "ddx" /\ out.op = "Differentiate") =>
      /\ out.form.var = <<s_norm[4]>>
      /\ out.form.inner = parse_expr_with_local(Slice(s_norm, 5, Len(s_norm)))
      /\ out.result = Result("value", "", VExpr(EDiff(out.form.inner.e, out.form.var)))
      /\ StartsAt(expr_input, 1, <<"d","/","d","x"," ","s","i","n","x">>)
            => out.form.inner = VExpr(SinX) /\ out.result.v = VExpr(CosX)

\* C5: an input "diff(<inner>)" takes the diff(...) branch of parse_input:
\* <inner> is parsed and differentiated with respect to its single free
\* symbol, or to x when it has none; the normalized text is no product
\* "diff*(...)".
C5_DiffCallIsDirective ==
    (ran /\ StartsAt(Strip(expr_input), 1, <<"d","i","f","f","(">>)
         /\ Top(Strip(expr_input)) = ")") =>
      /\ out.form.route = "diff"
      /\ ~Contains(s_norm, <<"d","i","f","f","*","(">>)
      /\ out.form.inner.t = "expr" =>
            \E v \in (IF FreeSymbols(out.form.inner.e) = {} THEN {<<"x">>}
                      ELSE FreeSymbols(out.form.inner.e)) :
                out.form.value = VExpr(EDiff(out.form.inner.e, v))

\* s[i] is an '=' outside every parenthesis and no part of '==', '<=', '>='
\* or '!='
TopLevelEquals(s, i) ==
    /\ s[i] = "="
    /\ ParenDepth(s, i) = 0
    /\ i = 1 \/ s[i - 1] \notin {"=", "<", ">", "!"}
    /\ i = Len(s) \/ s[i + 1] # "="

\* Run handled a text that takes neither the d/dx nor the diff(...) branch
NoDirective ==
    /\ ran
    /\ out.status # "warning"
    /\ ~ddx_match(s_norm)
    /\ ~diff_match(s_norm)

TwoXPlus3 == EAdd(EMul(ENum(2), ESym(<<"x">>)), ENum(3))

C7_AutoAgreesWithRoute ==
    (ran /\ operation = Auto /\ out.op # "none") =>
      out.op = IF out.form.route \in {"ddx", "diff"} THEN "Differentiate"
               ELSE IF out.form.route = "equation" THEN "Solve equation"
               ELSE "Simplify expression"

\* C8: when parse_input took the '=' branch and both sides parsed, every
\* operation selected explicitly other than Solve operates on left - right.
C8_OperatesOnDifference ==
    (ran /\ out.form.route = "equation" /\ out.op # "none"
         /\ operation \notin {Auto, "Solve equation"}) =>
      out.operand = VExpr(ESub(out.form.left.e, out.form.right.e))

\* C9: the target of Differentiate, Integrate and Solve is the variable of
\* the directive when the input is a directive; else the first variable the
\* caller selected; else a free symbol of the expression; and with none of
\* these the request fails.
C9_TargetResolution ==
    (ran /\ out.op \in {"Differentiate", "Integrate (indefinite)", "Solve equation"}) =>
      IF out.form.route \in {"ddx", "diff"} THEN out.target = out.form.var
      ELSE IF \E i \in 1..Len(var_input) : var_input[i] \notin {",", " "}
           THEN out.target = get_symbols_from_input(var_input)[1]
      ELSE IF out.operand.t = "expr" /\ FreeSymbols(out.operand.e) # {}
           THEN out.target \in FreeSymbols(out.operand.e)
      ELSE out.status = "error"

\* C10: Solve on an equation whose left - right has no free symbol shows
\* "Identity" when left - right is zero and "Contradiction" otherwise.
C10_Classification ==
    (ran /\ out.op = "Solve equation" /\ out.form.route = "equation"
         /\ FreeSymbols(ESub(out.form.left.e, out.form.right.e)) = {}) =>
      out.result = Result("classification",
                          IF ESub(out.form.left.e, out.form.right.e) = {}
                          THEN "Identity" ELSE "Contradiction",
                          NoVal)

\* C11: every failure of a request ends in an error outcome shown to the
\* caller, none escapes the handler; the malformed input "((" ends in the
\* outcome for input that cannot be parsed ("Could not parse expression"),
\* not in the outcome for any other exception.
C11_MalformedInputOutcome ==
    ran =>
      /\ out.status \in {"warning", "shown", "info", "parse_error", "error"}
      /\ IsRaised(out.form.value) => out.status \in {"parse_error", "error"}
      /\ expr_input = <<"(", "(">> => out.status = "parse_error"

-----------------------------------------------------------------------------
(* Claims on streamlit_app.py.                                             *)

\* C12: when the variable field holds the name of a built-in function, the
\* dictionary handed to the parser binds that name to the function, never
\* to a free symbol.
C12_BuiltInWinsCollision ==
    (ran /\ DOMAIN out.table # {} /\ var_input \in SolverFunctions)
        => out.table[var_input].t = "function"

\* C13: the normalizer never separates the letters of a function name: a
\* function name of the input is still in the normalized text.
C13_FunctionNameKeptWhole ==
    ran => \A f \in SolverFunctions : Contains(expr_input, f) => Contains(s_norm, f)

\* C17: the history is append-only: a request that completes appends the one
\* entry (expression, operation, result) at the end, any other rerun leaves
\* the history as it was, and no entry holds a failed parse.
C17_HistoryAppendOnly ==
    [][ /\ (ran' /\ out'.status = "success")
            => /\ history' = Append(history, <<out'.expr, operation, out'.result>>)
               /\ Strip(expr_input) # <<>>
               /\ ~IsRaised(out'.expr)
        /\ ~(ran' /\ out'.status = "success") => history' = history
        /\ \A k \in 1..Len(history') : history'[k][1].t = "expr" ]_vars

\* a second request completed after a first one, with another operation
C17_Witness ==
    /\ ran
    /\ out.status = "success"
    /\ Len(history) = 2
    /\ history[2] = <<out.expr, operation, out.result>>
    /\ history[1][2] # history[2][2]

-----------------------------------------------------------------------------
(* Further claims on preprocess_input.                                     *)

\* C14: in the normalized text no ')' is directly followed by an identifier,
\* a digit or '(' (a '*' stands between them), and a name or number directly
\* before '(' is a known function name.
C14_ProductAtParenthesis ==
    ran =>
      \A i \in 1..(Len(s_norm) - 1) :
        /\ s_norm[i] = ")" => ~(IsWord(s_norm[i + 1]) \/ s_norm[i + 1] = "(")
        /\ (IsWord(s_norm[i]) /\ s_norm[i + 1] = "(")
             => \E k \in 1..Len(MATH_FUNCS) :
                    StartsAt(s_norm, i + 1 - Len(MATH_FUNCS[k]), MATH_FUNCS[k])

\* C15: preprocess_input is idempotent: a second pass leaves the normalized
\* text as it is.
C15_Idempotent == ran => preprocess_input(s_norm) = s_norm

-----------------------------------------------------------------------------
(* Claim on shitmario.py.                                                  *)

\* C16: lives never drops below 0, and once lose_life has brought lives to
\* 0 the flag game_over is true and stays true.
C16_GameOverAtZeroLives ==
    /\ game.lives >= 0
    /\ game.lives <= 0 => game.game_over

=============================================================================
